---- MODULE Spec2Model ----
(***************************************************************************)
(* Model of static/script.js: the client-side validation of the pollution  *)
(* form (clientValidate), the rendering helpers and the asynchronous       *)
(* submit handler with its two suspension points (await fetch, await       *)
(* response.json()).                                                       *)
(*                                                                         *)
(* Text typed into the form is a sequence of one-character strings, so     *)
(* that trim() and Number() are computed and not assumed.  Numbers parsed  *)
(* from text are fixed-point integers scaled by Scale.  Messages and DOM   *)
(* text are TLA+ strings.                                                  *)
(***************************************************************************)
EXTENDS Integers, Sequences, FiniteSets, TLC

VARIABLES
  ranges,      \* const ranges = window.PERMITTED_RANGES || {}   (line 13)
  formData,    \* argument of the clientValidate call under study
  errors,      \* object returned by that call
  returned,    \* whether that call has returned
  document,    \* the DOM elements looked up on lines 2-11 and 30-38
  pending,     \* submit handlers suspended at an await, oldest first:
               \* where each waits and the ok flag of its response
  event,       \* what the handler step taken last did
  lastRender,  \* arguments of the most recent renderResults* calls
  latest       \* what the most recently submitted handler left on display

vars == <<ranges, formData, errors, returned, document, pending, event,
          lastRender, latest>>

---------------------------------------------------------------------------
(* Bounds *)

\* longest text typed into one form field
MaxLen == 4

\* most submit handlers suspended at an await at one time
MaxPending == 2

---------------------------------------------------------------------------
(* Text and numbers *)

\* the six inputs read on lines 151-156, in that order
Fields == <<"pm25", "pm10", "co", "no2", "so2", "o3">>

FieldSet == {Fields[i] : i \in 1..Len(Fields)}

Alphabet == {" ", "a", "-", ".", "0", "1"}

Digits == {"0", "1", "2", "3", "4", "5", "6", "7", "8", "9"}

Strings == UNION {[1..n -> Alphabet] : n \in 0..MaxLen}

\* a text of MaxLen characters has at most MaxLen - 1 fractional digits
FracDigits == MaxLen - 1

Scale == 10 ^ FracDigits

EmptyObject == [k \in {} |-> ""]

Put(obj, key, value) ==
  [k \in DOMAIN obj \cup {key} |-> IF k = key THEN value ELSE obj[k]]

\* Object.keys(obj): the own keys, in the order the fields are declared
ObjectKeys(obj) == SelectSeq(Fields, LAMBDA f : f \in DOMAIN obj)

RECURSIVE TrimStart(_)
TrimStart(s) ==
  IF s # <<>> /\ Head(s) = " " THEN TrimStart(Tail(s)) ELSE s

RECURSIVE TrimEnd(_)
TrimEnd(s) ==
  IF s # <<>> /\ s[Len(s)] = " " THEN TrimEnd(SubSeq(s, 1, Len(s) - 1)) ELSE s

\* String.prototype.trim
trim(s) == TrimEnd(TrimStart(s))

DigitValue(c) ==
  CASE c = "0" -> 0 [] c = "1" -> 1 [] c = "2" -> 2 [] c = "3" -> 3
    [] c = "4" -> 4 [] c = "5" -> 5 [] c = "6" -> 6 [] c = "7" -> 7
    [] c = "8" -> 8 [] c = "9" -> 9

RECURSIVE DecimalValue(_)
DecimalValue(ds) ==
  IF ds = <<>> THEN 0
  ELSE 10 * DecimalValue(SubSeq(ds, 1, Len(ds) - 1)) + DigitValue(ds[Len(ds)])

NaN == [nan |-> TRUE, v |-> 0]

\* Number(text): StringToNumber over the alphabet.  White space around the
\* literal is ignored, the empty literal is 0, a literal is an optional sign,
\* digits with at most one point and at least one digit; anything else is NaN.
Number(s) ==
  LET t == trim(s)
      neg == t # <<>> /\ Head(t) = "-"
      body == IF neg THEN Tail(t) ELSE t
      dots == {i \in 1..Len(body) : body[i] = "."}
      digs == {i \in 1..Len(body) : body[i] \in Digits}
      dot == IF dots = {} THEN Len(body) + 1 ELSE CHOOSE i \in dots : TRUE
      int == SubSeq(body, 1, dot - 1)
      frac == SubSeq(body, dot + 1, Len(body))
      mag == (DecimalValue(int) * (10 ^ Len(frac)) + DecimalValue(frac))
               * (10 ^ (FracDigits - Len(frac)))
  IN IF t = <<>> THEN [nan |-> FALSE, v |-> 0]
     ELSE IF /\ dots \cup digs = 1..Len(body)
             /\ Cardinality(dots) <= 1
             /\ digs # {}
          THEN [nan |-> FALSE, v |-> IF neg THEN 0 - mag ELSE mag]
          ELSE NaN

---------------------------------------------------------------------------
(* clientValidate *)

Required == "This field is required."

NotANumber == "Value must be a number."

Between(meta) ==
  "Value must be between " \o ToString(meta.min) \o " and "
    \o ToString(meta.max) \o "."

\* (formData[field] ?? "").toString().trim()
RawOf(data, field) ==
  trim(IF field \in DOMAIN data THEN data[field] ELSE <<>>)

\* ValidateField reading the text without trim()
ValidateField_untrimmed(errs, data, field) ==
  LET raw == IF field \in DOMAIN data THEN data[field] ELSE <<>>
      meta == ranges[field]
      value == Number(raw)
  IN IF raw = <<>> THEN Put(errs, field, Required)
     ELSE IF value.nan THEN Put(errs, field, NotANumber)
     ELSE IF value.v < meta.min * Scale \/ value.v > meta.max * Scale
          THEN Put(errs, field, Between(meta))
          ELSE errs

\* ValidateField with the bounds excluded (<= and >= for < and >)
ValidateField_exclusive(errs, data, field) ==
  LET raw == RawOf(data, field)
      meta == ranges[field]
      value == Number(raw)
  IN IF raw = <<>> THEN Put(errs, field, Required)
     ELSE IF value.nan THEN Put(errs, field, NotANumber)
     ELSE IF value.v <= meta.min * Scale \/ value.v >= meta.max * Scale
          THEN Put(errs, field, Between(meta))
          ELSE errs

\* body of the forEach callback, lines 52-70
ValidateField(errs, data, field) ==
  LET raw == RawOf(data, field)
      meta == ranges[field]
      value == Number(raw)
  IN IF raw = <<>> THEN Put(errs, field, Required)
     ELSE IF value.nan THEN Put(errs, field, NotANumber)
     ELSE IF value.v < meta.min * Scale \/ value.v > meta.max * Scale
          THEN Put(errs, field, Between(meta))
          ELSE errs

RECURSIVE ForEachField(_, _, _)
ForEachField(keys, data, errs) ==
  IF keys = <<>> THEN errs
  ELSE ForEachField(Tail(keys), data, ValidateField(errs, data, Head(keys)))

clientValidate(data) == ForEachField(ObjectKeys(ranges), data, EmptyObject)

---------------------------------------------------------------------------
(* DOM helpers, lines 15-47 and 75-78 *)

\* own properties of CATEGORY_CLASS_MAP, lines 15-22
CategoryNames ==
  {"Good", "Satisfactory", "Moderate", "Poor", "Very Poor", "Severe"}

\* keys every object literal inherits from Object.prototype
InheritedKeys == {"constructor"}

\* String(Object.prototype.constructor): a truthy value that is no class token
NativeFunctionText == "function Object() { [native code] }"

\* CATEGORY_CLASS_MAP[category]; "" stands for undefined
CATEGORY_CLASS_MAP(category) ==
  CASE category = "Good" -> "aqi-good"
    [] category = "Satisfactory" -> "aqi-satisfactory"
    [] category = "Moderate" -> "aqi-moderate"
    [] category = "Poor" -> "aqi-poor"
    [] category = "Very Poor" -> "aqi-very-poor"
    [] category = "Severe" -> "aqi-severe"
    [] category \in InheritedKeys -> NativeFunctionText
    [] OTHER -> ""

\* Object.values(CATEGORY_CLASS_MAP)
AQI_CLASS_NAMES == {CATEGORY_CLASS_MAP(c) : c \in CategoryNames}

\* iconMap[category] || "", lines 100-109 (the emoji are written as tags;
\* Moderate and Poor share one icon, as in the source)
IconOf(category) ==
  CASE category = "Good" -> "[check]"
    [] category = "Satisfactory" -> "[info]"
    [] category = "Moderate" -> "[warning]"
    [] category = "Poor" -> "[warning]"
    [] category = "Very Poor" -> "[no-entry]"
    [] category = "Severe" -> "[siren]"
    [] category \in InheritedKeys -> NativeFunctionText
    [] OTHER -> ""

clearErrors(d) ==
  [d EXCEPT !.globalErrorEl = [textContent |-> "", visible |-> FALSE],
            !.errorMessages = [f \in DOMAIN d.errorMessages |-> ""]]

\* the element is looked up by data-error-for; a name without one is skipped
setFieldError(d, fieldName, message) ==
  IF fieldName \in DOMAIN d.errorMessages
  THEN [d EXCEPT !.errorMessages[fieldName] = message]
  ELSE d

showGlobalError(d, message) ==
  [d EXCEPT !.globalErrorEl = [textContent |-> message, visible |-> TRUE]]

\* Object.entries(errs).forEach(([field, message]) => setFieldError(...))
RECURSIVE SetFieldErrors(_, _, _)
SetFieldErrors(d, errs, keys) ==
  IF keys = {} THEN d
  ELSE LET k == CHOOSE x \in keys : TRUE
       IN SetFieldErrors(setFieldError(d, k, errs[k]), errs, keys \ {k})

\* resetAqiClasses clearing the category element only
resetAqiClasses_categoryOnly(d) ==
  [d EXCEPT !.summaryCategory.classList = @ \ AQI_CLASS_NAMES]

resetAqiClasses(d) ==
  [d EXCEPT !.summaryCategory.classList = @ \ AQI_CLASS_NAMES,
            !.adviceCard.classList = @ \ AQI_CLASS_NAMES]

---------------------------------------------------------------------------
(* renderResultsSummary, lines 80-116 *)

\* a JSON value in the place of a score: t is "number" (v thousandths),
\* "infinity" (a number literal beyond the double range) or "undefined"
NaNScore == [t |-> "nan", v |-> 0]

\* typeof score === "number" && Number.isFinite(score)
IsFiniteNumber(score) == score.t = "number"

\* score.toFixed(2) of a score given in thousandths (ties go up)
toFixed2(n) ==
  LET h == (n + 5) \div 10
      c == h % 100
  IN ToString(h \div 100) \o "." \o (IF c < 10 THEN "0" ELSE "") \o ToString(c)

\* classList.add(cls) throws InvalidCharacterError on a token with white
\* space, which is what an inherited key of the class map yields (line 95)
RenderThrows(score, category) ==
  /\ IsFiniteNumber(score)
  /\ category # ""
  /\ CATEGORY_CLASS_MAP(category) = NativeFunctionText

\* renderResultsSummary whose early return hides the summary alone
renderResultsSummary_summaryOnly(d, score, category, advice) ==
  LET d0 == resetAqiClasses(d)
      cls == CATEGORY_CLASS_MAP(category)
      d1 == [d0 EXCEPT !.summaryAqi = toFixed2(score.v),
                       !.summaryCategory.textContent =
                          IF category # "" THEN category ELSE "--",
                       !.resultsSummary.hidden = FALSE]
      d2 == IF category # "" /\ cls # ""
            THEN [d1 EXCEPT !.summaryCategory.classList = @ \cup {cls},
                            !.adviceCard.classList = @ \cup {cls}]
            ELSE d1
  IN IF ~IsFiniteNumber(score)
     THEN [d0 EXCEPT !.resultsSummary.hidden = TRUE]
     ELSE IF RenderThrows(score, category) THEN d1
     ELSE IF advice # ""
          THEN [d2 EXCEPT !.adviceText = IconOf(category) \o " " \o advice,
                          !.adviceCard.hidden = FALSE]
          ELSE [d2 EXCEPT !.adviceText = "", !.adviceCard.hidden = TRUE]

\* the DOM when renderResultsSummary returns, or when it throws on line 95
renderResultsSummary(d, score, category, advice) ==
  LET d0 == resetAqiClasses(d)
      cls == CATEGORY_CLASS_MAP(category)
      d1 == [d0 EXCEPT !.summaryAqi = toFixed2(score.v),
                       !.summaryCategory.textContent =
                          IF category # "" THEN category ELSE "--",
                       !.resultsSummary.hidden = FALSE]
      d2 == IF category # "" /\ cls # ""
            THEN [d1 EXCEPT !.summaryCategory.classList = @ \cup {cls},
                            !.adviceCard.classList = @ \cup {cls}]
            ELSE d1
  IN IF ~IsFiniteNumber(score)
     THEN [d0 EXCEPT !.resultsSummary.hidden = TRUE,
                     !.adviceCard.hidden = TRUE,
                     !.adviceText = ""]
     ELSE IF RenderThrows(score, category) THEN d1
     ELSE IF advice # ""
          THEN [d2 EXCEPT !.adviceText = IconOf(category) \o " " \o advice,
                          !.adviceCard.hidden = FALSE]
          ELSE [d2 EXCEPT !.adviceText = "", !.adviceCard.hidden = TRUE]

---------------------------------------------------------------------------
(* renderResultsTable, lines 118-144 *)

NoDataSubtitle == "No polluted cities data could be derived from the dataset."

ShowingSubtitle == "Showing the most polluted cities based on average AQI."

\* one <tr> per item: <td>item.city</td><td>item.avgAqi</td>
RowOf(item) == <<item.city, ToString(item.avgAqi)>>

RECURSIVE AppendRows(_, _)
AppendRows(body, items) ==
  IF items = <<>> THEN body
  ELSE AppendRows(Append(body, RowOf(Head(items))), Tail(items))

\* renderResultsTable without resultsBody.innerHTML = ""
renderResultsTable_appends(d, mostPolluted) ==
  IF Len(mostPolluted) = 0
  THEN [d EXCEPT !.resultsContainer.hidden = TRUE,
                 !.resultsSubtitle = NoDataSubtitle]
  ELSE [d EXCEPT !.resultsBody = AppendRows(d.resultsBody, mostPolluted),
                 !.resultsContainer.hidden = FALSE,
                 !.resultsSubtitle = ShowingSubtitle]

renderResultsTable(d, mostPolluted) ==
  LET d0 == [d EXCEPT !.resultsBody = <<>>]
  IN IF Len(mostPolluted) = 0
     THEN [d0 EXCEPT !.resultsContainer.hidden = TRUE,
                     !.resultsSubtitle = NoDataSubtitle]
     ELSE [d0 EXCEPT !.resultsBody = AppendRows(d0.resultsBody, mostPolluted),
                     !.resultsContainer.hidden = FALSE,
                     !.resultsSubtitle = ShowingSubtitle]

---------------------------------------------------------------------------
(* Inputs: the injected range table, submitted forms, server responses *)

\* a table of permitted ranges as the page injects it: min < max, inclusive
RangeTable ==
  [f \in FieldSet |->
     CASE f = "pm25" -> [min |-> 0, max |-> 1]
       [] f = "pm10" -> [min |-> 1, max |-> 11]
       [] f = "co" -> [min |-> 0, max |-> 10]
       [] f = "no2" -> [min |-> 0, max |-> 11]
       [] f = "so2" -> [min |-> 1, max |-> 10]
       [] f = "o3" -> [min |-> 0, max |-> 100]]

\* window.PERMITTED_RANGES || {}: all six fields, some of them, or absent
PermittedRanges ==
  {[f \in S |-> RangeTable[f]] : S \in {FieldSet, {"pm25", "co"}, {}}}

FormOf(text) == [f \in FieldSet |-> text]

\* forms whose validation is studied: one field takes any text, the others
\* are all empty or all "1"
ValidateInputs ==
  {[FormOf(b) EXCEPT ![f] = s] :
     f \in FieldSet, s \in Strings, b \in {<<>>, <<"1">>}}

\* forms submitted to the handler
SubmittedForms ==
  { FormOf(<<"1">>), [FormOf(<<"1">>) EXCEPT !.so2 = <<"a">>] }

Undefined == [t |-> "undefined", v |-> 0]

Infinite == [t |-> "infinity", v |-> 0]

\* 312.125, shown as 312.13
FiniteScore == [t |-> "number", v |-> 312125]

CategoryValues == {"", "Good", "Very Poor", "constructor"}

Advice == "Limit outdoor activity."

Missing == [present |-> FALSE, items |-> <<>>]

Delhi == [city |-> "Delhi", avgAqi |-> 300]

Agra == [city |-> "Agra", avgAqi |-> 120]

Listed(items) == [present |-> TRUE, items |-> items]

\* advice and ranking as they come together in one response
AdviceAndRanking ==
  { <<Advice, Listed(<<Delhi, Agra>>)>>, <<"", Listed(<<>>)>>,
    <<Advice, Missing>> }

NoErrors == [present |-> FALSE, map |-> EmptyObject]

FieldRefused == [present |-> TRUE, map |-> [k \in {"pm25"} |-> "Out of range."]]

\* an error keyed by a name no element of the page carries
NameRefused == [present |-> TRUE, map |-> [k \in {"nox"} |-> "Unknown field."]]

\* a parsed body: truthiness of success, and the members the handler reads
EmptyBody ==
  [kind |-> "object", success |-> FALSE, errors |-> NoErrors, message |-> "",
   pollutionScore |-> Undefined, category |-> "", advice |-> "",
   mostPolluted |-> Missing]

FailureBodies ==
  { EmptyBody,
    [EmptyBody EXCEPT !.message = "Invalid input."],
    [EmptyBody EXCEPT !.errors = FieldRefused],
    [EmptyBody EXCEPT !.errors = NameRefused, !.message = "Invalid input."] }

\* success with a finite score, and success with no score or an infinite one
SuccessBodies ==
  {[EmptyBody EXCEPT !.success = TRUE, !.pollutionScore = FiniteScore,
                     !.category = c, !.advice = al[1], !.mostPolluted = al[2]] :
     c \in CategoryValues, al \in AdviceAndRanking}
  \cup
  {[EmptyBody EXCEPT !.success = TRUE, !.pollutionScore = s,
                     !.category = "Good", !.advice = al[1],
                     !.mostPolluted = al[2]] :
     s \in {Undefined, Infinite}, al \in AdviceAndRanking}

\* response.json() rejects (no JSON), or yields null, or yields an object
Bodies ==
  {[EmptyBody EXCEPT !.kind = k] : k \in {"reject", "null"}}
    \cup FailureBodies \cup SuccessBodies

---------------------------------------------------------------------------
(* The submit handler, lines 146-209 *)

\* the page before the first submit: nothing shown
InitialDocument ==
  [globalErrorEl |-> [textContent |-> "", visible |-> FALSE],
   errorMessages |-> [f \in FieldSet |-> ""],
   resultsSubtitle |-> "",
   resultsContainer |-> [hidden |-> TRUE],
   resultsBody |-> <<>>,
   resultsSummary |-> [hidden |-> TRUE],
   summaryAqi |-> "",
   summaryCategory |-> [textContent |-> "", classList |-> {}],
   adviceCard |-> [hidden |-> TRUE, classList |-> {}],
   adviceText |-> ""]

\* what the user sees: the content of hidden elements is left out
Displayed(d) ==
  [globalError |-> IF d.globalErrorEl.visible
                   THEN d.globalErrorEl.textContent ELSE "",
   fieldErrors |-> d.errorMessages,
   summary |-> IF d.resultsSummary.hidden THEN <<>>
               ELSE <<d.summaryAqi, d.summaryCategory.textContent,
                      d.summaryCategory.classList>>,
   advice |-> IF d.adviceCard.hidden THEN <<>>
              ELSE <<d.adviceText, d.adviceCard.classList>>,
   table |-> IF d.resultsContainer.hidden THEN <<>> ELSE d.resultsBody,
   subtitle |-> d.resultsSubtitle]

Rendered(score, category, advice, mostPolluted) ==
  [called |-> TRUE, score |-> score, category |-> category,
   advice |-> advice, mostPolluted |-> mostPolluted]

NoRender == [Rendered(NaNScore, "", "", <<>>) EXCEPT !.called = FALSE]

\* renderResultsSummary(NaN, "", ""); renderResultsTable([])
RenderFailure(d) ==
  renderResultsTable(renderResultsSummary(d, NaNScore, "", ""), <<>>)

\* lines 148-168: the handler up to its first await
OnSubmit(d, data) ==
  LET d0 == clearErrors(d)
      errs == clientValidate(data)
  IN IF DOMAIN errs # {}
     THEN [posted |-> FALSE,
           dom |-> RenderFailure(
                     showGlobalError(SetFieldErrors(d0, errs, DOMAIN errs),
                                     "Please fix the highlighted fields."))]
     ELSE [posted |-> TRUE, dom |-> d0]

\* lines 201-208
OnException(d) ==
  [outcome |-> "exception",
   dom |-> RenderFailure(showGlobalError(d,
     "Unable to contact the server. Please check your connection and try again.")),
   render |-> Rendered(NaNScore, "", "", <<>>)]

\* x || fallback
OrElse(x, fallback) == IF x # "" THEN x ELSE fallback

\* lines 179-200: the handler once response.json() has settled
OnBody(d, ok, data) ==
  LET list == IF data.mostPolluted.present
              THEN data.mostPolluted.items ELSE <<>>
      summary == renderResultsSummary(d, data.pollutionScore, data.category,
                                      data.advice)
  IN IF data.kind # "object" THEN OnException(d)
     ELSE IF ~ok \/ ~data.success
     THEN [outcome |-> "refused",
           dom |-> RenderFailure(
             IF data.errors.present
             THEN showGlobalError(
                    SetFieldErrors(d, data.errors.map, DOMAIN data.errors.map),
                    OrElse(data.message, "Validation failed on server."))
             ELSE showGlobalError(d,
                    OrElse(data.message, "Server returned an error."))),
           render |-> Rendered(NaNScore, "", "", <<>>)]
     ELSE IF RenderThrows(data.pollutionScore, data.category)
     THEN OnException(summary)
     ELSE [outcome |-> "success",
           dom |-> renderResultsTable(summary, list),
           render |-> Rendered(data.pollutionScore, data.category,
                               data.advice, list)]

Remove(seq, i) == SubSeq(seq, 1, i - 1) \o SubSeq(seq, i + 1, Len(seq))

\* what the step taken last did: its outcome, the list a response carried
\* and the body a POST carried
Event(outcome, list, body) ==
  [outcome |-> outcome, list |-> list, body |-> body]

NoBody == [f \in {} |-> <<>>]

Init ==
  /\ ranges \in PermittedRanges
  /\ formData = FormOf(<<>>)
  /\ errors = EmptyObject
  /\ returned = FALSE
  /\ document = InitialDocument
  /\ pending = <<>>
  /\ event = Event("load", "none", NoBody)
  /\ lastRender = NoRender
  /\ latest = [state |-> "none", view |-> Displayed(InitialDocument)]

\* a handler that was suspended at index i runs to its end
Finish(i, r, list) ==
  /\ document' = r.dom
  /\ pending' = Remove(pending, i)
  /\ event' = Event(r.outcome, list, NoBody)
  /\ lastRender' = r.render
  /\ latest' = IF i = Len(pending) /\ latest.state = "pending"
               THEN [state |-> "done", view |-> Displayed(r.dom)]
               ELSE latest
  /\ UNCHANGED <<ranges, formData, errors, returned>>

\* the submit event: lines 146-177
Submit(data) ==
  LET r == OnSubmit(document, data)
  IN /\ r.posted => Len(pending) < MaxPending
     /\ document' = r.dom
     /\ pending' = IF r.posted
                   THEN Append(pending, [pc |-> "fetch", ok |-> FALSE])
                   ELSE pending
     /\ event' = IF r.posted THEN Event("posted", "none", data)
                  ELSE Event("invalid", "none", NoBody)
     /\ lastRender' = IF r.posted THEN lastRender
                      ELSE Rendered(NaNScore, "", "", <<>>)
     /\ latest' = IF r.posted
                  THEN [state |-> "pending", view |-> Displayed(InitialDocument)]
                  ELSE [state |-> "done", view |-> Displayed(r.dom)]
     /\ UNCHANGED <<ranges, formData, errors, returned>>

\* await fetch(...) rejects: line 171 to the catch block
FetchRejects(i) ==
  /\ pending[i].pc = "fetch"
  /\ Finish(i, OnException(document), "none")

\* await fetch(...) resolves with a response: line 171 to line 179
FetchResolves(i, ok) ==
  /\ pending[i].pc = "fetch"
  /\ pending' = [pending EXCEPT ![i].pc = "json", ![i].ok = ok]
  /\ event' = Event("response", "none", NoBody)
  /\ UNCHANGED <<ranges, formData, errors, returned, document, lastRender,
                 latest>>

\* await response.json() settles: line 179 to the end of the handler
BodySettles(i, data) ==
  /\ pending[i].pc = "json"
  /\ Finish(i, OnBody(document, pending[i].ok, data),
            IF ~data.mostPolluted.present THEN "missing"
            ELSE IF data.mostPolluted.items = <<>> THEN "empty" ELSE "rows")

Next ==
  \/ \E data \in SubmittedForms : Submit(data)
  \/ \E i \in 1..Len(pending) : FetchRejects(i)
  \/ \E i \in 1..Len(pending), ok \in BOOLEAN : FetchResolves(i, ok)
  \/ \E i \in 1..Len(pending), data \in Bodies : BodySettles(i, data)

Spec == Init /\ [][Next]_vars

---------------------------------------------------------------------------
(* clientValidate on its own *)

InitValidate ==
  /\ ranges \in PermittedRanges
  /\ formData \in ValidateInputs
  /\ errors = EmptyObject
  /\ returned = FALSE
  /\ document = InitialDocument
  /\ pending = <<>>
  /\ event = Event("load", "none", NoBody)
  /\ lastRender = NoRender
  /\ latest = [state |-> "none", view |-> Displayed(InitialDocument)]

Validate ==
  /\ ~returned
  /\ errors' = clientValidate(formData)
  /\ returned' = TRUE
  /\ UNCHANGED <<ranges, formData, document, pending, event, lastRender,
                 latest>>

NextValidate == Validate

SpecValidate == InitValidate /\ [][NextValidate]_vars

---------------------------------------------------------------------------
(* Properties of clientValidate, under SpecValidate *)

IsBlank(text) == \A i \in 1..Len(text) : text[i] = " "

OutOfRange(n, meta) == n.v < meta.min * Scale \/ n.v > meta.max * Scale

\* C1: every field declared in the range table gets at most one message, by
\* strict precedence: required if the text is empty after trimming, else
\* not-a-number if it does not parse, else the range message if the number
\* is outside the field's bounds, else no entry.
C1_MessagePrecedence ==
  returned =>
    /\ DOMAIN errors \subseteq DOMAIN ranges
    /\ \A f \in DOMAIN ranges :
         LET text == formData[f]
             n == Number(text)
         IN IF IsBlank(text) THEN f \in DOMAIN errors /\ errors[f] = Required
            ELSE IF n.nan THEN f \in DOMAIN errors /\ errors[f] = NotANumber
            ELSE IF OutOfRange(n, ranges[f])
                 THEN f \in DOMAIN errors /\ errors[f] = Between(ranges[f])
                 ELSE f \notin DOMAIN errors

\* one call reports the range message for pm25 = "1.01" and the required
\* message for the empty fields beside it
C1_Witness ==
  /\ returned
  /\ DOMAIN ranges = FieldSet
  /\ formData = [FormOf(<<>>) EXCEPT !.pm25 = <<"1", ".", "0", "1">>]
  /\ DOMAIN errors = FieldSet
  /\ errors.pm25 = "Value must be between 0 and 1."
  /\ errors.co = "This field is required."

\* the message clientValidate gives field f of a form, "" when it gives none
MessageFor(form, f) ==
  LET e == clientValidate(form) IN IF f \in DOMAIN e THEN e[f] ELSE ""

\* C2: all six fields are checked independently and all errors are returned
\* together: the message of one field does not depend on the text of the
\* others, and a form with all six fields empty gets exactly six required
\* messages, one per field.
C2_AllSixChecked ==
  returned =>
    /\ \A f \in FieldSet :
         \A g \in FieldSet \ {f}, t \in {<<>>, <<"a">>, <<"1">>} :
           MessageFor([formData EXCEPT ![g] = t], f)
             = (IF f \in DOMAIN errors THEN errors[f] ELSE "")
    /\ formData = FormOf(<<>>) =>
         /\ DOMAIN errors = FieldSet
         /\ \A f \in FieldSet : errors[f] = Required

\* C3: the bounds are inclusive: a number equal to min or to max gets no
\* message, a number above max or below min gets the range message.
C3_InclusiveBounds ==
  returned =>
    \A f \in DOMAIN ranges :
      LET n == Number(formData[f])
          meta == ranges[f]
      IN (~IsBlank(formData[f]) /\ ~n.nan) =>
           /\ (n.v = meta.min * Scale \/ n.v = meta.max * Scale)
                => f \notin DOMAIN errors
           /\ (n.v > meta.max * Scale \/ n.v < meta.min * Scale)
                => f \in DOMAIN errors /\ errors[f] = Between(meta)

\* pm25 = "1" is at its max and pm10 = "1" at its min, both accepted, while
\* co = "10.1" is above its max of 10 and refused
C3_Witness ==
  /\ returned
  /\ DOMAIN ranges = FieldSet
  /\ formData = [FormOf(<<"1">>) EXCEPT !.co = <<"1", "0", ".", "1">>]
  /\ DOMAIN errors = {"co"}
  /\ errors.co = "Value must be between 0 and 10."

---------------------------------------------------------------------------
(* Properties of the submit handler, under Spec *)

Failed == {"invalid", "refused", "exception"}

Completed == Failed \cup {"success"}

\* C4: a POST is issued only if each of the six fields is non-empty, numeric
\* and within its permitted range, whatever the injected range table is.
C4_PostOnlyIfValid ==
  event.outcome = "posted" =>
    \A f \in FieldSet :
      LET n == Number(event.body[f])
      IN /\ ~IsBlank(event.body[f])
         /\ ~n.nan
         /\ f \in DOMAIN ranges => ~OutOfRange(n, ranges[f])

\* C5: when a submit ends in a validation failure, a refused or not-ok
\* response or an exception, then as the handler ends the summary and the
\* advice card are hidden, the advice text is empty, the table is empty and
\* hidden, and no AQI class is left on the category or the advice card.
C5_FailureShowsNoScore ==
  event.outcome \in Failed =>
    /\ document.resultsSummary.hidden
    /\ document.adviceCard.hidden
    /\ document.adviceText = ""
    /\ document.resultsBody = <<>>
    /\ document.resultsContainer.hidden
    /\ document.summaryCategory.classList \cap AQI_CLASS_NAMES = {}
    /\ document.adviceCard.classList \cap AQI_CLASS_NAMES = {}

\* a refused response right after a success that had shown 312.13 / Good
C5_Witness ==
  /\ event.outcome = "refused"
  /\ document.summaryAqi = "312.13"
  /\ document.summaryCategory.textContent = "Good"
  /\ document.resultsSummary.hidden

RECURSIVE RowsOf(_)
RowsOf(items) ==
  IF items = <<>> THEN <<>>
  ELSE <<RowOf(Head(items))>> \o RowsOf(Tail(items))

C7_OutcomeAlwaysShown ==
  event.outcome \in Completed =>
    \/ document.globalErrorEl.visible /\ document.globalErrorEl.textContent # ""
    \/ ~document.resultsSummary.hidden

\* C8: once no handler is pending, the page shows the outcome of the form
\* submitted last, not that of an earlier submit whose response came later.
C8_LastSubmitWins ==
  (pending = <<>> /\ latest.state = "done") =>
    Displayed(document) = latest.view

\* C9: whenever the global error is visible or a field message is non-empty,
\* the summary is hidden.
C9_ErrorExcludesResult ==
  ( \/ document.globalErrorEl.visible
    \/ \E f \in DOMAIN document.errorMessages : document.errorMessages[f] # "" )
  => document.resultsSummary.hidden

\* the AQI class the render called last stands for
ClassFor(render) ==
  IF IsFiniteNumber(render.score) /\ render.category \in CategoryNames
  THEN {CATEGORY_CLASS_MAP(render.category)} ELSE {}

\* C10: after any renders the category element and the advice card carry at
\* most one AQI class, the same one, which is the class of the category
\* rendered last (none for a score that is no finite number or a category
\* outside the six); and the advice card is visible only if the summary is
\* visible and the advice text is non-empty.
C10_OneClassOfLastRender ==
  lastRender.called =>
    /\ Cardinality(document.summaryCategory.classList \cap AQI_CLASS_NAMES) <= 1
    /\ document.summaryCategory.classList \cap AQI_CLASS_NAMES
         = document.adviceCard.classList \cap AQI_CLASS_NAMES
    /\ document.summaryCategory.classList \cap AQI_CLASS_NAMES
         = ClassFor(lastRender)
    /\ ~document.adviceCard.hidden =>
         ~document.resultsSummary.hidden /\ document.adviceText # ""

\* Very Poor with its advice is on display after Good had been
C10_Witness ==
  /\ lastRender.called
  /\ lastRender.category = "Very Poor"
  /\ document.adviceCard.classList = {"aqi-very-poor"}
  /\ document.adviceText = "[no-entry] Limit outdoor activity."
  /\ latest.state = "done"
  /\ latest.view.summary # <<>>
  /\ latest.view.summary[3] = {"aqi-good"}

====
